---- MODULE Spec2Model ----
(***************************************************************************)
(* Model of the transcoder's worker-pool dispatcher (package dispatcher)   *)
(* and of the most-frequently-requested queue (package mfr).               *)
(*                                                                         *)
(* Dispatcher: every goroutine is a process with a program counter, every  *)
(* channel operation is one step.  An unbuffered channel operation is a    *)
(* rendezvous: the step of the receiver, enabled while the sender is       *)
(* parked on the send.  A goroutine ends with its last statement.          *)
(***************************************************************************)
EXTENDS Integers, Sequences, FiniteSets, TLC

\* ------------------------------------------------------------------ bounds
\* Largest worker count passed to Start.
MaxWorkers == 2
\* Number of payloads the caller of Dispatch has to offer.
MaxTasks == 3
\* Capacity of the intake channel d.tasks (2000 in the source).
TasksCap == 2
\* Capacity of the free-worker registry d.workerPool (200 in the source).
PoolCap == 2
\* Hit calls of each of the two leading producers of the queue test (10000 in
\* the source); the third producer makes one fewer (9000 in the source).
PinnedHits == 3
\* Number of queue calls the test makes after the producers have joined.
MaxOps == 3

TaskIds == 1..MaxTasks

\* The follow-up a workload dispatches from Do(t) through t.Dispatcher.
FollowUpOf(t) == t + MaxTasks

FollowUpIds == {FollowUpOf(t) : t \in TaskIds}

AllTaskIds == TaskIds \cup FollowUpIds

VARIABLES
    nworkers,    \* the workers argument of Start
    tasks,       \* d.tasks: the buffered intake channel
    workerPool,  \* d.workerPool: buffered channel of workers' task channels
    wpc,         \* position of each worker goroutine
    wtask,       \* the task t a worker holds inside workload.Do(t)
    wwait,       \* w.wait: each worker's WaitGroup counter
    hpc,         \* position of the handoff goroutine spawned for each task
    hw,          \* workerQueue: the worker channel a handoff took from the pool
    rpc,         \* position of the routing goroutine
    ridx,        \* index of the worker the routing goroutine is stopping
    cpc,         \* position of the caller of Dispatch
    nextTask,    \* the next payload the caller dispatches
    spc,         \* position of the caller of Stop
    doCalled,    \* testWorkload.doCalled
    seenTasks,   \* testWorkload.seenTasks
    busyAtStop,  \* history: workers that were inside Do when their stop send began
    index,       \* Queue: key -> entry, for the keys present
    qhits,       \* Queue.hits: the aggregate accumulator
    qseq,        \* Queue: the next insertion sequence number
    ppc,         \* position of each producer goroutine of the queue test
    phits,       \* Hit calls each producer has made
    hist,        \* the calls made after the join, with what they returned
    records,     \* the video records: sdHash -> localPath, remoteURL
    localBytes,  \* the sdHashes whose bytes are on the local tier
    remoteBytes, \* the sdHashes whose bytes are on the remote tier
    fpc,         \* position of the Furlough call on each sdHash
    tpc,         \* position of the Retire call on each sdHash
    fault,       \* the components that fail a call made now
    lres,        \* the last call of the library that returned, and its error
    fid,         \* fragmentURL's last call: the stream identifier
    fhash,       \* ... the sd hash
    fname,       \* ... the fragment name
    fres         \* ... and the url and error returned

dvars == <<nworkers, tasks, workerPool, wpc, wtask, wwait, hpc, hw, rpc, ridx,
           cpc, nextTask, spc, doCalled, seenTasks, busyAtStop>>

qvars == <<index, qhits, qseq, ppc, phits, hist>>

lvars == <<records, localBytes, remoteBytes, fpc, tpc, fault, lres>>

cvars == <<fid, fhash, fname, fres>>

vars == <<dvars, qvars, lvars, cvars>>

Workers == 1..nworkers

\* --------------------------------------------------------------- dispatcher

DInit ==
    /\ nworkers \in 1..MaxWorkers
    /\ tasks = <<>>
    /\ workerPool = <<>>
    /\ wpc = [w \in 1..MaxWorkers |-> IF w <= nworkers THEN "start" ELSE "none"]
    /\ wtask = [w \in 1..MaxWorkers |-> 0]
    /\ wwait = [w \in 1..MaxWorkers |-> 0]
    /\ hpc = [t \in AllTaskIds |-> "none"]
    /\ hw = [t \in AllTaskIds |-> 0]
    /\ rpc = "loop"
    /\ ridx = 0
    /\ cpc = "idle"
    /\ nextTask = 1
    /\ spc = "idle"
    /\ doCalled = 0
    /\ seenTasks = <<>>
    /\ busyAtStop = {}

\* Variant: the send also waits for a free worker in the registry.
IntakeReadyNeedsWorker == Len(tasks) < TasksCap /\ workerPool # <<>>

\* d.tasks <- Task{...} can proceed: the buffered intake has room.
IntakeReady == Len(tasks) < TasksCap

\* Dispatch: the send completes at once when the intake has room, else the
\* caller parks on the send.
Dispatch ==
    /\ cpc = "idle"
    /\ nextTask <= MaxTasks
    /\ IF IntakeReady
          THEN /\ tasks' = Append(tasks, nextTask)
               /\ nextTask' = nextTask + 1
               /\ cpc' = "idle"
          ELSE /\ cpc' = "blocked"
               /\ UNCHANGED <<tasks, nextTask>>
    /\ UNCHANGED <<nworkers, workerPool, wpc, wtask, wwait, hpc, hw, rpc, ridx,
                   spc, doCalled, seenTasks, busyAtStop, qvars, lvars, cvars>>

\* A caller parked on the intake send is admitted once there is room.
DispatchAdmit ==
    /\ cpc = "blocked"
    /\ IntakeReady
    /\ tasks' = Append(tasks, nextTask)
    /\ nextTask' = nextTask + 1
    /\ cpc' = "idle"
    /\ UNCHANGED <<nworkers, workerPool, wpc, wtask, wwait, hpc, hw, rpc, ridx,
                   spc, doCalled, seenTasks, busyAtStop, qvars, lvars, cvars>>

\* Dispatcher.Stop: the caller parks on the unbuffered d.stopChan.
StopCall ==
    /\ spc = "idle"
    /\ spc' = "sending"
    /\ UNCHANGED <<nworkers, tasks, workerPool, wpc, wtask, wwait, hpc, hw, rpc,
                   ridx, cpc, nextTask, doCalled, seenTasks, busyAtStop, qvars, lvars, cvars>>

\* Variant: the routing loop hands off without waiting, and drops the task
\* when no worker is free.
RouterReceiveDrop ==
    /\ rpc = "loop"
    /\ tasks # <<>>
    /\ hpc' = [hpc EXCEPT ![Head(tasks)] =
                 IF workerPool = <<>> THEN "done" ELSE "waitPool"]
    /\ tasks' = Tail(tasks)
    /\ UNCHANGED <<nworkers, workerPool, wpc, wtask, wwait, hw, rpc, ridx, cpc,
                   nextTask, spc, doCalled, seenTasks, busyAtStop, qvars, lvars, cvars>>

\* Variant: the routing goroutine still takes tasks while it stops the workers.
RouterReceiveWhileStopping ==
    /\ rpc # "returned"
    /\ tasks # <<>>
    /\ hpc' = [hpc EXCEPT ![Head(tasks)] = "waitPool"]
    /\ tasks' = Tail(tasks)
    /\ UNCHANGED <<nworkers, workerPool, wpc, wtask, wwait, hw, rpc, ridx, cpc,
                   nextTask, spc, doCalled, seenTasks, busyAtStop, qvars, lvars, cvars>>

\* Routing loop, case task := <-d.tasks: spawn the handoff goroutine.
RouterReceive ==
    /\ rpc = "loop"
    /\ tasks # <<>>
    /\ hpc' = [hpc EXCEPT ![Head(tasks)] = "waitPool"]
    /\ tasks' = Tail(tasks)
    /\ UNCHANGED <<nworkers, workerPool, wpc, wtask, wwait, hw, rpc, ridx, cpc,
                   nextTask, spc, doCalled, seenTasks, busyAtStop, qvars, lvars, cvars>>

\* The routing goroutine enters w.Stop() for worker w: it parks on w.stopChan.
BeginWorkerStop(w) ==
    /\ rpc' = "stopSend"
    /\ ridx' = w
    /\ busyAtStop' = IF wpc[w] = "do" THEN busyAtStop \cup {w} ELSE busyAtStop

\* Routing loop, case <-d.stopChan: Stop's send completes and Stop returns;
\* the loop turns to the first worker.
RouterStop ==
    /\ rpc = "loop"
    /\ spc = "sending"
    /\ spc' = "returned"
    /\ BeginWorkerStop(1)
    /\ UNCHANGED <<nworkers, tasks, workerPool, wpc, wtask, wwait, hpc, hw, cpc,
                   nextTask, doCalled, seenTasks, qvars, lvars, cvars>>

\* Worker.Stop, w.wait.Wait() returns; next worker, or the routing goroutine ends.
RouterWaitDone ==
    /\ rpc = "stopWait"
    /\ wwait[ridx] = 0
    /\ IF ridx < nworkers
          THEN BeginWorkerStop(ridx + 1)
          ELSE /\ rpc' = "returned"
               /\ UNCHANGED <<ridx, busyAtStop>>
    /\ UNCHANGED <<nworkers, tasks, workerPool, wpc, wtask, wwait, hpc, hw, cpc,
                   nextTask, spc, doCalled, seenTasks, qvars, lvars, cvars>>

\* Variant: the handoff reads the first channel of the registry and leaves it there.
HandoffGetWorkerKeeps(t) ==
    /\ hpc[t] = "waitPool"
    /\ workerPool # <<>>
    /\ hw' = [hw EXCEPT ![t] = Head(workerPool)]
    /\ hpc' = [hpc EXCEPT ![t] = "send"]
    /\ UNCHANGED <<nworkers, tasks, workerPool, wpc, wtask, wwait, rpc, ridx, cpc,
                   nextTask, spc, doCalled, seenTasks, busyAtStop, qvars, lvars, cvars>>

\* Handoff goroutine: workerQueue := <-d.workerPool
HandoffGetWorker(t) ==
    /\ hpc[t] = "waitPool"
    /\ workerPool # <<>>
    /\ hw' = [hw EXCEPT ![t] = Head(workerPool)]
    /\ workerPool' = Tail(workerPool)
    /\ hpc' = [hpc EXCEPT ![t] = "send"]
    /\ UNCHANGED <<nworkers, tasks, wpc, wtask, wwait, rpc, ridx, cpc, nextTask,
                   spc, doCalled, seenTasks, busyAtStop, qvars, lvars, cvars>>

\* Worker goroutine: w.wait.Add(1)
WorkerStart(w) ==
    /\ wpc[w] = "start"
    /\ wwait' = [wwait EXCEPT ![w] = @ + 1]
    /\ wpc' = [wpc EXCEPT ![w] = "publish"]
    /\ UNCHANGED <<nworkers, tasks, workerPool, wtask, hpc, hw, rpc, ridx, cpc,
                   nextTask, spc, doCalled, seenTasks, busyAtStop, qvars, lvars, cvars>>

\* Worker goroutine: w.pool <- w.tasks
WorkerPublish(w) ==
    /\ wpc[w] = "publish"
    /\ Len(workerPool) < PoolCap
    /\ workerPool' = Append(workerPool, w)
    /\ wpc' = [wpc EXCEPT ![w] = "select"]
    /\ UNCHANGED <<nworkers, tasks, wtask, wwait, hpc, hw, rpc, ridx, cpc,
                   nextTask, spc, doCalled, seenTasks, busyAtStop, qvars, lvars, cvars>>

\* Variant: the handoff goroutine loops back for another worker after its send.
WorkerTakeHandoffLoops(w, t) ==
    /\ wpc[w] = "select"
    /\ hpc[t] = "send"
    /\ hw[t] = w
    /\ hpc' = [hpc EXCEPT ![t] = "waitPool"]
    /\ wpc' = [wpc EXCEPT ![w] = "do"]
    /\ wtask' = [wtask EXCEPT ![w] = t]
    /\ UNCHANGED <<nworkers, tasks, workerPool, wwait, hw, rpc, ridx, cpc,
                   nextTask, spc, doCalled, seenTasks, busyAtStop, qvars, lvars, cvars>>

\* Worker select, case t := <-w.tasks: rendezvous with the handoff parked on
\* workerQueue <- task, whose goroutine ends with that send.
WorkerTake(w, t) ==
    /\ wpc[w] = "select"
    /\ hpc[t] = "send"
    /\ hw[t] = w
    /\ hpc' = [hpc EXCEPT ![t] = "done"]
    /\ wpc' = [wpc EXCEPT ![w] = "do"]
    /\ wtask' = [wtask EXCEPT ![w] = t]
    /\ UNCHANGED <<nworkers, tasks, workerPool, wwait, hw, rpc, ridx, cpc,
                   nextTask, spc, doCalled, seenTasks, busyAtStop, qvars, lvars, cvars>>

\* The payloads for which workload.Do returns an error: every second one.
DoFails(t) == t % 2 = 0

\* Variant: the worker leaves its loop when Do returns an error.
AfterDoReturnsOnError(err) == IF err THEN "exited" ELSE "publish"

\* Where the worker goes when Do has returned: an error is logged, and in
\* both cases the loop goes round.
AfterDo(err) == "publish"

\* workload.Do (counted as testWorkload.Do counts), then on with the worker loop.
WorkerDo(w) ==
    /\ wpc[w] = "do"
    /\ doCalled' = doCalled + 1
    /\ seenTasks' = Append(seenTasks, wtask[w])
    /\ wpc' = [wpc EXCEPT ![w] = AfterDo(DoFails(wtask[w]))]
    /\ wtask' = [wtask EXCEPT ![w] = 0]
    /\ UNCHANGED <<nworkers, tasks, workerPool, wwait, hpc, hw, rpc, ridx, cpc,
                   nextTask, spc, busyAtStop, qvars, lvars, cvars>>

\* Worker select, case <-w.stopChan: rendezvous with the routing goroutine
\* parked in w.Stop() on w.stopChan <- true, which moves on to w.wait.Wait().
WorkerStopRecv(w) ==
    /\ wpc[w] = "select"
    /\ rpc = "stopSend"
    /\ ridx = w
    /\ wpc' = [wpc EXCEPT ![w] = "stopAck"]
    /\ rpc' = "stopWait"
    /\ UNCHANGED <<nworkers, tasks, workerPool, wtask, wwait, hpc, hw, ridx, cpc,
                   nextTask, spc, doCalled, seenTasks, busyAtStop, qvars, lvars, cvars>>

\* Worker goroutine: w.wait.Done(); return
WorkerDone(w) ==
    /\ wpc[w] = "stopAck"
    /\ wwait' = [wwait EXCEPT ![w] = @ - 1]
    /\ wpc' = [wpc EXCEPT ![w] = "exited"]
    /\ UNCHANGED <<nworkers, tasks, workerPool, wtask, hpc, hw, rpc, ridx, cpc,
                   nextTask, spc, doCalled, seenTasks, busyAtStop, qvars, lvars, cvars>>

\* Inside Do(t): t.Dispatcher.Dispatch(follow-up).  The send completes when
\* the intake has room, else the worker parks on it inside Do.
WorkerDoDispatch(w) ==
    /\ wpc[w] = "do"
    /\ wtask[w] \in TaskIds
    /\ IF IntakeReady
          THEN /\ tasks' = Append(tasks, FollowUpOf(wtask[w]))
               /\ wpc' = [wpc EXCEPT ![w] = "doRest"]
          ELSE /\ wpc' = [wpc EXCEPT ![w] = "doSend"]
               /\ UNCHANGED tasks
    /\ UNCHANGED <<nworkers, workerPool, wtask, wwait, hpc, hw, rpc, ridx, cpc,
                   nextTask, spc, doCalled, seenTasks, busyAtStop, qvars, lvars, cvars>>

\* A worker parked inside Do on the intake send is admitted once there is room.
WorkerDoAdmit(w) ==
    /\ wpc[w] = "doSend"
    /\ IntakeReady
    /\ tasks' = Append(tasks, FollowUpOf(wtask[w]))
    /\ wpc' = [wpc EXCEPT ![w] = "doRest"]
    /\ UNCHANGED <<nworkers, workerPool, wtask, wwait, hpc, hw, rpc, ridx, cpc,
                   nextTask, spc, doCalled, seenTasks, busyAtStop, qvars, lvars, cvars>>

\* Do returns after its Dispatch, then on with the worker loop.
WorkerDoReturn(w) ==
    /\ wpc[w] = "doRest"
    /\ doCalled' = doCalled + 1
    /\ seenTasks' = Append(seenTasks, wtask[w])
    /\ wpc' = [wpc EXCEPT ![w] = AfterDo(DoFails(wtask[w]))]
    /\ wtask' = [wtask EXCEPT ![w] = 0]
    /\ UNCHANGED <<nworkers, tasks, workerPool, wwait, hpc, hw, rpc, ridx, cpc,
                   nextTask, spc, busyAtStop, qvars, lvars, cvars>>

WorkerRun(w) ==
    \/ WorkerStart(w)
    \/ WorkerPublish(w)
    \/ \E t \in TaskIds : WorkerTake(w, t)
    \/ WorkerDo(w)

\* The dispatcher while Stop is never called.
RunNext ==
    \/ Dispatch
    \/ DispatchAdmit
    \/ RouterReceive
    \/ \E t \in TaskIds : HandoffGetWorker(t)
    \/ \E w \in Workers : WorkerStart(w)
    \/ \E w \in Workers : WorkerPublish(w)
    \/ \E w \in Workers, t \in TaskIds : WorkerTake(w, t)
    \/ \E w \in Workers : WorkerDo(w)

StopNext ==
    \/ StopCall
    \/ RouterStop
    \/ RouterWaitDone
    \/ \E w \in Workers : WorkerStopRecv(w)
    \/ \E w \in Workers : WorkerDone(w)

\* The dispatcher with Stop and a workload whose Do may dispatch a follow-up.
ChainNext ==
    \/ Dispatch
    \/ DispatchAdmit
    \/ RouterReceive
    \/ \E t \in AllTaskIds : HandoffGetWorker(t)
    \/ \E w \in Workers : WorkerStart(w)
    \/ \E w \in Workers : WorkerPublish(w)
    \/ \E w \in Workers, t \in AllTaskIds : WorkerTake(w, t)
    \/ \E w \in Workers : WorkerDo(w)
    \/ \E w \in Workers : WorkerDoDispatch(w)
    \/ \E w \in Workers : WorkerDoAdmit(w)
    \/ \E w \in Workers : WorkerDoReturn(w)
    \/ StopCall
    \/ RouterStop
    \/ RouterWaitDone
    \/ \E w \in Workers : WorkerStopRecv(w)
    \/ \E w \in Workers : WorkerDone(w)

\* -------------------------------------------------------------------- queue
\* Package mfr.  A key is a pair: <<"u", i>> is the url of popClaim i of the
\* test, <<"n", i>> the url of the i-th random claim of the noise producer.

PinnedKeys == {<<"u", i>> : i \in 1..3}

\* The fresh keys of the noise producer, in the order it makes them (100000
\* in the source).
NoiseKeySeq == << <<"n", 1>> >>

NoiseKeys == {NoiseKeySeq[i] : i \in 1..Len(NoiseKeySeq)}

Keys == PinnedKeys \cup NoiseKeys

NoKey == <<"nil", 0>>

\* The *claim a producer passes with its key.
ClaimOf(k) == <<"claim", k>>

\* A value other than the one the producers pass.
LateValue == <<"late", NoKey>>

\* What Peek and Pop return for an empty queue.
NoItem == [key |-> NoKey, value |-> NoKey, hits |-> 0]

\* The item handed out for entry k of ix.
ItemOf(ix, k) == [key |-> k, value |-> ix[k].value, hits |-> ix[k].hits]

\* Variant: a min-heap.
BeforeFewestFirst(a, b) == a.hits < b.hits \/ (a.hits = b.hits /\ a.seq <= b.seq)

\* Order of the heap: more hits first, among equal hits the earlier insertion.
Before(a, b) == a.hits > b.hits \/ (a.hits = b.hits /\ a.seq <= b.seq)

\* The highest-hit entry that is not released, NoKey when there is none.
QTop(ix) ==
    LET visible == {k \in DOMAIN ix : ~ix[k].released}
    IN  IF visible = {} THEN NoKey
        ELSE CHOOSE k \in visible : \A j \in visible : Before(ix[k], ix[j])

\* Variant: a Hit of a present key takes the value it is given.
QHitTakesLastValue(ix, k, v, seq) ==
    IF k \in DOMAIN ix
       THEN [ix EXCEPT ![k] = [@ EXCEPT !.hits = @ + 1, !.released = FALSE, !.value = v]]
       ELSE [j \in DOMAIN ix \cup {k} |->
                IF j = k THEN [value |-> v, hits |-> 1, released |-> FALSE, seq |-> seq]
                         ELSE ix[j]]

\* Hit(key, value): insert with hits = 1, or increment and clear released; the
\* value of the first insertion is kept.
QHit(ix, k, v, seq) ==
    IF k \in DOMAIN ix
       THEN [ix EXCEPT ![k] = [@ EXCEPT !.hits = @ + 1, !.released = FALSE]]
       ELSE [j \in DOMAIN ix \cup {k} |->
                IF j = k THEN [value |-> v, hits |-> 1, released |-> FALSE, seq |-> seq]
                         ELSE ix[j]]

\* The index without key k.
QRemove(ix, k) == [j \in DOMAIN ix \ {k} |-> ix[j]]

\* Pop: the item of the top entry, which is removed.
QPopItem(ix) == IF QTop(ix) = NoKey THEN NoItem ELSE ItemOf(ix, QTop(ix))

QPopIndex(ix) == IF QTop(ix) = NoKey THEN ix ELSE QRemove(ix, QTop(ix))

\* Peek: the item of the top entry, which stays.
QPeekItem(ix) == IF QTop(ix) = NoKey THEN NoItem ELSE ItemOf(ix, QTop(ix))

\* Variant: Pop takes the popped entry's hits out of the accumulator.
QHitsLessPopped(h, item) == h - item.hits

\* The accumulator after a Pop: Pop does not take hits away.
QHitsAfterPop(h, item) == h

\* Variant: Release takes the key out of the queue.
QReleaseRemoves(ix, k) == [j \in DOMAIN ix \ {k} |-> ix[j]]

\* Release(key): mark a present key released.
QRelease(ix, k) ==
    IF k \in DOMAIN ix THEN [ix EXCEPT ![k].released = TRUE] ELSE ix

\* Variant: Fold leaves the key in place.
QFoldKeeps(ix, k) == ix

\* Fold(key): remove the key.
QFold(ix, k) == QRemove(ix, k)

\* The producers of queueSuite.SetupTest: 1..3 hit the pinned keys, 4 is noise.
Producers == 1..4

ProducerHits(g) ==
    IF g \in {1, 2} THEN PinnedHits ELSE IF g = 3 THEN PinnedHits - 1 ELSE Len(NoiseKeySeq)

\* The key producer g passes to its next Hit.
ProducerKey(g) == IF g <= 3 THEN <<"u", g>> ELSE NoiseKeySeq[phits[g] + 1]

QInit ==
    /\ index = <<>>
    /\ qhits = 0
    /\ qseq = 1
    /\ ppc = [g \in Producers |->
                IF ProducerHits(g) = 0 THEN "done" ELSE IF g <= 3 THEN "hit" ELSE "peek"]
    /\ phits = [g \in Producers |-> 0]
    /\ hist = <<>>

\* q.Hit(c.url, c) in a producer's loop.
ProducerHit(g) ==
    /\ ppc[g] = "hit"
    /\ index' = QHit(index, ProducerKey(g), ClaimOf(ProducerKey(g)), qseq)
    /\ qseq' = IF ProducerKey(g) \in DOMAIN index THEN qseq ELSE qseq + 1
    /\ qhits' = qhits + 1
    /\ phits' = [phits EXCEPT ![g] = @ + 1]
    /\ ppc' = [ppc EXCEPT ![g] =
                 IF g <= 3 THEN "peek"
                 ELSE IF phits[g] + 1 = ProducerHits(g) THEN "done" ELSE "peek"]
    /\ UNCHANGED <<hist, dvars, lvars, cvars>>

\* q.Peek() in a producer's loop; the result is dropped.
ProducerPeek(g) ==
    /\ ppc[g] = "peek"
    /\ QPeekItem(index) \in {NoItem} \cup {ItemOf(index, k) : k \in DOMAIN index}
    /\ ppc' = [ppc EXCEPT ![g] =
                 IF g <= 3 /\ phits[g] = ProducerHits(g) THEN "done" ELSE "hit"]
    /\ UNCHANGED <<index, qhits, qseq, phits, hist, dvars, lvars, cvars>>

\* wg.Wait() has returned.
Joined == \A g \in Producers : ppc[g] = "done"

CanCall == Joined /\ Len(hist) < MaxOps

Call(op, k, res) == [op |-> op, key |-> k, res |-> res]

TestPop ==
    /\ CanCall
    /\ hist' = Append(hist, Call("Pop", NoKey, QPopItem(index)))
    /\ index' = QPopIndex(index)
    /\ qhits' = QHitsAfterPop(qhits, QPopItem(index))
    /\ UNCHANGED <<qseq, ppc, phits, dvars, lvars, cvars>>

TestPeek ==
    /\ CanCall
    /\ hist' = Append(hist, Call("Peek", NoKey, QPeekItem(index)))
    /\ UNCHANGED <<index, qhits, qseq, ppc, phits, dvars, lvars, cvars>>

TestRelease(k) ==
    /\ CanCall
    /\ hist' = Append(hist, Call("Release", k, NoItem))
    /\ index' = QRelease(index, k)
    /\ UNCHANGED <<qhits, qseq, ppc, phits, dvars, lvars, cvars>>

TestFold(k) ==
    /\ CanCall
    /\ hist' = Append(hist, Call("Fold", k, NoItem))
    /\ index' = QFold(index, k)
    /\ UNCHANGED <<qhits, qseq, ppc, phits, dvars, lvars, cvars>>

\* A Hit after the join, with another value than the producers'.
TestHit(k) ==
    /\ CanCall
    /\ hist' = Append(hist, Call("Hit", k, NoItem))
    /\ index' = QHit(index, k, LateValue, qseq)
    /\ qseq' = IF k \in DOMAIN index THEN qseq ELSE qseq + 1
    /\ qhits' = qhits + 1
    /\ UNCHANGED <<ppc, phits, dvars, lvars, cvars>>

QNext ==
    \/ \E g \in Producers : ProducerHit(g)
    \/ \E g \in Producers : ProducerPeek(g)
    \/ TestPop
    \/ TestPeek
    \/ \E k \in PinnedKeys : TestRelease(k)
    \/ \E k \in PinnedKeys : TestFold(k)
    \/ \E k \in PinnedKeys : TestHit(k)

\* ------------------------------------------------------------------ library
\* Package video: Library over the persistence queries and the two storage
\* drivers.  A call that makes two driver calls takes two steps; other calls
\* on the library may run between them.

\* Every call names one sdHash and touches nothing kept under another, so one
\* sdHash is followed.
Hashes == {"h1"}

\* The components a call may find failing (an error or an expired deadline).
Components == {"local", "remote", "db"}

NoResult == [op |-> "none", hash |-> "", err |-> "none", n |-> 0]

\* What a call of op on hash h returns, after the result `last`.
Result(op, h, err, last) == [op |-> op, hash |-> h, err |-> err, n |-> 1 - last.n]

\* queries.Add: a record with a local path and no remote url.
DbAdd(recs, h) ==
    [j \in DOMAIN recs \cup {h} |->
        IF j = h THEN [localPath |-> "local", remoteURL |-> ""] ELSE recs[j]]

\* queries.UpdatePath
DbUpdatePath(recs, h, p) ==
    IF h \in DOMAIN recs THEN [recs EXCEPT ![h].localPath = p] ELSE recs

\* queries.UpdateRemotePath
DbUpdateRemotePath(recs, h, u) ==
    IF h \in DOMAIN recs THEN [recs EXCEPT ![h].remoteURL = u] ELSE recs

\* queries.Delete
DbDelete(recs, h) == [j \in DOMAIN recs \ {h} |-> recs[j]]

LInit ==
    /\ records = <<>>
    /\ localBytes = {}
    /\ remoteBytes = {}
    /\ fpc = [h \in Hashes |-> "idle"]
    /\ tpc = [h \in Hashes |-> "idle"]
    /\ fault = {}
    /\ lres = NoResult

\* A component starts or stops failing.
SetFault(f) ==
    /\ fault # f
    /\ fault' = f
    /\ UNCHANGED <<records, localBytes, remoteBytes, fpc, tpc, lres, dvars, qvars, cvars>>

\* The encoder writes the output of a stream that has no record to the local tier.
EncoderPut(h) ==
    /\ h \notin DOMAIN records
    /\ h \notin localBytes
    /\ "local" \notin fault
    /\ localBytes' = localBytes \cup {h}
    /\ UNCHANGED <<records, remoteBytes, fpc, tpc, fault, lres, dvars, qvars, cvars>>

\* Library.Add, called for an encoded stream.
LibAdd(h) ==
    /\ h \in localBytes
    /\ IF "db" \in fault
          THEN /\ lres' = Result("Add", h, "db", lres)
               /\ UNCHANGED records
          ELSE IF h \in DOMAIN records
                  THEN /\ lres' = Result("Add", h, "exists", lres)
                       /\ UNCHANGED records
                  ELSE /\ lres' = Result("Add", h, "none", lres)
                       /\ records' = DbAdd(records, h)
    /\ UNCHANGED <<localBytes, remoteBytes, fpc, tpc, fault, dvars, qvars, cvars>>

\* Library.Get
LibGet(h) ==
    /\ lres' = Result("Get", h,
                      IF "db" \in fault THEN "db"
                      ELSE IF h \in DOMAIN records THEN "none" ELSE "notfound",
                      lres)
    /\ UNCHANGED <<records, localBytes, remoteBytes, fpc, tpc, fault, dvars, qvars, cvars>>

\* Variant: Furlough goes on to the record although local.Delete failed.
FurloughDeleteIgnoresError(h) ==
    /\ fpc[h] = "idle"
    /\ localBytes' = IF "local" \in fault THEN localBytes ELSE localBytes \ {h}
    /\ fpc' = [fpc EXCEPT ![h] = "update"]
    /\ UNCHANGED <<records, remoteBytes, tpc, fault, lres, dvars, qvars, cvars>>

\* Library.Furlough, q.local.Delete(v.SDHash): return its error, or go on.
FurloughDelete(h) ==
    /\ fpc[h] = "idle"
    /\ IF "local" \in fault
          THEN /\ lres' = Result("Furlough", h, "storage", lres)
               /\ UNCHANGED <<localBytes, fpc>>
          ELSE /\ localBytes' = localBytes \ {h}
               /\ fpc' = [fpc EXCEPT ![h] = "update"]
               /\ UNCHANGED lres
    /\ UNCHANGED <<records, remoteBytes, tpc, fault, dvars, qvars, cvars>>

\* Library.Furlough, q.queries.UpdatePath(ctx, v.SDHash, ""), and return.
FurloughUpdate(h) ==
    /\ fpc[h] = "update"
    /\ fpc' = [fpc EXCEPT ![h] = "idle"]
    /\ IF "db" \in fault
          THEN /\ lres' = Result("Furlough", h, "db", lres)
               /\ UNCHANGED records
          ELSE /\ lres' = Result("Furlough", h, "none", lres)
               /\ records' = DbUpdatePath(records, h, "")
    /\ UNCHANGED <<localBytes, remoteBytes, tpc, fault, dvars, qvars, cvars>>

\* Library.Retire, q.remote.Delete(v.SDHash): return its error, or go on.
RetireDelete(h) ==
    /\ tpc[h] = "idle"
    /\ IF "remote" \in fault
          THEN /\ lres' = Result("Retire", h, "storage", lres)
               /\ UNCHANGED <<remoteBytes, tpc>>
          ELSE /\ remoteBytes' = remoteBytes \ {h}
               /\ tpc' = [tpc EXCEPT ![h] = "delete"]
               /\ UNCHANGED lres
    /\ UNCHANGED <<records, localBytes, fpc, fault, dvars, qvars, cvars>>

\* Variant: Retire returns nil although queries.Delete failed.
RetireRecordSwallowsError(h) ==
    /\ tpc[h] = "delete"
    /\ tpc' = [tpc EXCEPT ![h] = "idle"]
    /\ lres' = Result("Retire", h, "none", lres)
    /\ records' = IF "db" \in fault THEN records ELSE DbDelete(records, h)
    /\ UNCHANGED <<localBytes, remoteBytes, fpc, fault, dvars, qvars, cvars>>

\* Library.Retire, q.queries.Delete(ctx, v.SDHash), and return.
RetireRecord(h) ==
    /\ tpc[h] = "delete"
    /\ tpc' = [tpc EXCEPT ![h] = "idle"]
    /\ IF "db" \in fault
          THEN /\ lres' = Result("Retire", h, "db", lres)
               /\ UNCHANGED records
          ELSE /\ lres' = Result("Retire", h, "none", lres)
               /\ records' = DbDelete(records, h)
    /\ UNCHANGED <<localBytes, remoteBytes, fpc, fault, dvars, qvars, cvars>>

\* The uploader copies a local video to the remote tier.
UploaderPut(h) ==
    /\ h \in DOMAIN records
    /\ h \in localBytes
    /\ h \notin remoteBytes
    /\ "remote" \notin fault
    /\ remoteBytes' = remoteBytes \cup {h}
    /\ UNCHANGED <<records, localBytes, fpc, tpc, fault, lres, dvars, qvars, cvars>>

\* Library.UpdateRemotePath, called when an upload has finished.
LibUpdateRemotePath(h) ==
    /\ h \in remoteBytes
    /\ IF "db" \in fault
          THEN /\ lres' = Result("UpdateRemotePath", h, "db", lres)
               /\ UNCHANGED records
          ELSE /\ lres' = Result("UpdateRemotePath", h, "none", lres)
               /\ records' = DbUpdateRemotePath(records, h, "remote")
    /\ UNCHANGED <<localBytes, remoteBytes, fpc, tpc, fault, dvars, qvars, cvars>>

LNext ==
    \/ \E f \in SUBSET Components : SetFault(f)
    \/ \E h \in Hashes : EncoderPut(h)
    \/ \E h \in Hashes : LibAdd(h)
    \/ \E h \in Hashes : LibGet(h)
    \/ \E h \in Hashes : FurloughDelete(h)
    \/ \E h \in Hashes : FurloughUpdate(h)
    \/ \E h \in Hashes : RetireDelete(h)
    \/ \E h \in Hashes : RetireRecord(h)
    \/ \E h \in Hashes : UploaderPut(h)
    \/ \E h \in Hashes : LibUpdateRemotePath(h)

\* ------------------------------------------------------------------- client
\* Package client: fragmentURL, which checks the sd hash it is given against
\* the one in the url the stream resolves to on the server.

\* The length of an sd hash (96 in the program).
HashLen == 2

HexDigits == {"0", "b"}

\* The characters of the strings tried as sd hashes; "z" is no hex digit.
Alphabet == HexDigits \cup {"z"}

\* The strings tried as sd hashes: too short, of the right length, too long.
HashStrings == UNION {[1..k -> Alphabet] : k \in 1..(HashLen + 1)}

Server == "http://t0.lbry.tv:18081"

FragmentNames == {"master.m3u8", "seg_0.ts"}

\* The sd hash of the stream the server knows.
VanquishHash == [i \in 1..HashLen |-> IF i % 2 = 1 THEN "b" ELSE "0"]

\* "morgan" resolves to nothing, "vanquish" to its stream, "stale" to a url
\* whose segment after streams is longer than an sd hash.
StreamIds == {"morgan", "vanquish", "stale"}

NoURL == <<>>

\* The stream url the server answers with, as its segments between slashes.
ResolvedURL(id) ==
    CASE id = "vanquish" -> <<Server, "streams", VanquishHash, "master.m3u8">>
      [] id = "stale"    -> <<Server, "streams", VanquishHash \o <<"0">>, "master.m3u8">>
      [] OTHER           -> NoURL

NoMatch == <<>>

\* Variant: the pattern takes a run of hex digits of any length.
SdHashReAnyLength(u) ==
    LET at == {i \in 1..(Len(u) - 2) :
                  /\ u[i] = "streams"
                  /\ \A j \in 1..Len(u[i + 1]) : u[i + 1][j] \in HexDigits}
    IN  IF at = {} THEN NoMatch
        ELSE u[(CHOOSE i \in at : \A j \in at : i <= j) + 1]

\* sdHashRe, /streams/([0-9a-f]{96})/: the first segment after "streams" that
\* is HashLen hex digits and is followed by a slash.
SdHashRe(u) ==
    LET at == {i \in 1..(Len(u) - 2) :
                  /\ u[i] = "streams"
                  /\ Len(u[i + 1]) = HashLen
                  /\ \A j \in 1..HashLen : u[i + 1][j] \in HexDigits}
    IN  IF at = {} THEN NoMatch
        ELSE u[(CHOOSE i \in at : \A j \in at : i <= j) + 1]

Mismatch == "remote sd hash mismatch"

\* Client.fragmentURL
FragmentURL(id, sdHash, name) ==
    LET remote == SdHashRe(ResolvedURL(id))
    IN  IF remote = NoMatch \/ remote # sdHash
           THEN [url |-> <<>>, err |-> Mismatch]
           ELSE [url |-> <<Server, "streams", sdHash, name>>, err |-> ""]

CInit ==
    /\ fid = ""
    /\ fhash = <<>>
    /\ fname = ""
    /\ fres = [url |-> <<>>, err |-> ""]

\* A call of fragmentURL.
CallFragmentURL(id, sdHash, name) ==
    /\ fid' = id
    /\ fhash' = sdHash
    /\ fname' = name
    /\ fres' = FragmentURL(id, sdHash, name)
    /\ UNCHANGED <<dvars, qvars, lvars>>

CNext ==
    \E id \in StreamIds : \E sdHash \in HashStrings : \E name \in FragmentNames :
        CallFragmentURL(id, sdHash, name)

Init == DInit /\ QInit /\ LInit /\ CInit

Next == RunNext \/ StopNext

\* The dispatcher with Stop.
Spec == Init /\ [][Next]_vars

\* Every runnable goroutine is eventually scheduled, and Do returns.
RunFairness ==
    /\ WF_vars(DispatchAdmit)
    /\ WF_vars(RouterReceive)
    /\ \A t \in TaskIds : WF_vars(HandoffGetWorker(t))
    /\ \A w \in 1..MaxWorkers : WF_vars(WorkerRun(w))

\* The dispatcher with Stop under a workload that dispatches follow-ups.
SpecChain == Init /\ [][ChainNext]_vars

\* The dispatcher when Stop is never called.
SpecRun == Init /\ [][RunNext]_vars /\ RunFairness

\* The queue under the producers of its test, then the calls of the test.
QueueInit == Init /\ nworkers = 1

SpecQueue == QueueInit /\ [][QNext]_vars

\* The library under its callers and failing components.
SpecLibrary == QueueInit /\ [][LNext]_vars

\* fragmentURL over the streams, sd hashes and names tried.
SpecFragment == QueueInit /\ [][CNext]_vars

\* ------------------------------------------------------- dispatcher claims

\* Number of times payload t appears in sequence s.
Count(t, s) == Cardinality({i \in 1..Len(s) : s[i] = t})

\* Payload t has been passed to Dispatch and the call has returned.
Dispatched(t) == t < nextTask

\* Goroutines alive: workers that have not returned, the routing goroutine,
\* handoff goroutines that have not completed their send.
Goroutines ==
    {<<"worker", w>> : w \in {x \in Workers : wpc[x] # "exited"}}
    \cup {<<"handoff", t>> : t \in {x \in TaskIds : hpc[x] \in {"waitPool", "send"}}}
    \cup (IF rpc # "returned" THEN {<<"router", 0>>} ELSE {})

\* The goroutines that exist when Start has returned.
StartGoroutines == {<<"worker", w>> : w \in Workers} \cup {<<"router", 0>>}

\* Every payload passed to Dispatch has been executed by workload.Do.
AllExecuted ==
    /\ cpc = "idle"
    /\ nextTask > 1
    /\ \A t \in TaskIds : Dispatched(t) => Count(t, seenTasks) = 1

C1_Safe ==
    /\ doCalled = Len(seenTasks)
    /\ \A t \in TaskIds :
          /\ Count(t, seenTasks) + Cardinality({w \in Workers : wtask[w] = t}) <= 1
          /\ Count(t, seenTasks) = 1 => Dispatched(t)

\* C1: when Stop is never called and every Do returns, no payload is executed
\* twice or held by two workers, doCalled counts the executions, and every
\* payload passed to Dispatch is eventually executed exactly once.
C1_EachTaskExecutedOnce ==
    /\ []C1_Safe
    /\ \A t \in TaskIds : Dispatched(t) ~> (Count(t, seenTasks) = 1)

C1_Witness ==
    /\ nworkers = MaxWorkers
    /\ doCalled = MaxTasks
    /\ \A t \in TaskIds : Count(t, seenTasks) = 1

\* C2: when Stop is never called, once every dispatched payload has been
\* executed no handoff goroutine is left: the live goroutines are exactly the
\* N workers and the routing goroutine.
C2_NoGoroutineLeak == AllExecuted => Goroutines = StartGoroutines

C2_Witness ==
    /\ AllExecuted
    /\ nextTask = MaxTasks + 1
    /\ \A t \in TaskIds : hpc[t] = "done"

\* C3 (as claimed): when Dispatcher.Stop has returned, every worker has
\* received its stop signal and left its loop.
C3_StopReturnsAfterAllAck ==
    spc = "returned" => \A w \in Workers : wpc[w] \in {"stopAck", "exited"}

\* C4 (as claimed): a worker that was inside Do when its stop was signalled
\* starts no further task once that invocation has returned.
C4_NoTaskAfterStopSignal ==
    [][\A w \in Workers :
          (w \in busyAtStop /\ wpc[w] # "do") => wpc'[w] # "do"]_vars

\* C5: a Dispatch call made while the intake holds fewer tasks than its
\* capacity completes in that step whatever the workers do; a parked caller can
\* be admitted as soon as there is room; and while the routing loop runs a
\* parked caller is eventually admitted.
C5_DispatchBlocksOnlyWhenFull ==
    /\ [][(cpc = "idle" /\ Len(tasks) < TasksCap
            /\ (cpc' # cpc \/ nextTask' # nextTask))
           => (cpc' = "idle" /\ tasks' = Append(tasks, nextTask))]_vars
    /\ []((cpc = "blocked" /\ Len(tasks) < TasksCap) => ENABLED DispatchAdmit)
    /\ (cpc = "blocked") ~> (cpc = "idle")

C5_Witness ==
    /\ cpc = "blocked"
    /\ Len(tasks) = TasksCap
    /\ nworkers = MaxWorkers

\* ------------------------------------------------------------ queue claims

\* Every call made after the join is a Pop.
PopsOnly == \A i \in 1..Len(hist) : hist[i].op = "Pop"

\* Hit calls the producers make on key k in all.
ExpectedHits(k) ==
    IF k \in {<<"u", 1>>, <<"u", 2>>} THEN ProducerHits(1)
    ELSE IF k = <<"u", 3>> THEN ProducerHits(3) ELSE 1

\* Hit calls made so far, by the producers and after the join.
HitCalls ==
    phits[1] + phits[2] + phits[3] + phits[4]
    + Cardinality({i \in 1..Len(hist) : hist[i].op = "Hit"})

\* C6: whatever the interleaving of the producers' Hit and Peek calls, the
\* Pops that follow the join return distinct entries in non-increasing hits
\* order (nil only once the queue is drained), each with as many hits as its
\* producer made Hit calls on its key.
C6_PopsInHitsOrder ==
    PopsOnly =>
        \A i \in 1..Len(hist) :
            /\ hist[i].res # NoItem => hist[i].res.hits = ExpectedHits(hist[i].res.key)
            /\ \A j \in (i + 1)..Len(hist) :
                  /\ hist[j].res.hits <= hist[i].res.hits
                  /\ hist[j].res # NoItem => hist[j].res.key # hist[i].res.key

C6_Witness ==
    /\ PopsOnly
    /\ Len(hist) = 3
    /\ \A i \in 1..3 : hist[i].res # NoItem
    /\ hist[1].res.hits > hist[3].res.hits

\* C7: while the producers run, and after any sequence of Hit, Peek and Pop
\* calls that follows, the accumulator equals the number of Hit calls made so
\* far over all keys: Pop and Peek leave it unchanged.
C7_AccumulatorCountsHits ==
    (\A i \in 1..Len(hist) : hist[i].op \in {"Hit", "Peek", "Pop"}) => qhits = HitCalls

C7_Witness ==
    /\ PopsOnly
    /\ Len(hist) = 3
    /\ \A i \in 1..3 : hist[i].res # NoItem
    /\ qhits = ProducerHits(1) + ProducerHits(2) + ProducerHits(3) + ProducerHits(4)

\* C8 (as claimed): Pop returning e, then Release(e.key), then Pop: the second
\* Pop returns the same entry e.
C8_PopReleasePopSame ==
    \A i \in 1..(Len(hist) - 2) :
        (/\ hist[i].op = "Pop" /\ hist[i].res # NoItem
         /\ hist[i + 1].op = "Release" /\ hist[i + 1].key = hist[i].res.key
         /\ hist[i + 2].op = "Pop")
        => hist[i + 2].res = hist[i].res

\* C9: Pop returning e, then Fold(e.key), then Pop: the second Pop returns nil
\* or another entry; and a Pop returns a folded key only if a Hit inserted it
\* again after the Fold.
C9_FoldedKeyNotPopped ==
    /\ \A i \in 1..(Len(hist) - 2) :
          (/\ hist[i].op = "Pop" /\ hist[i].res # NoItem
           /\ hist[i + 1].op = "Fold" /\ hist[i + 1].key = hist[i].res.key
           /\ hist[i + 2].op = "Pop")
          => (hist[i + 2].res # hist[i].res /\ hist[i + 2].res.key # hist[i].res.key)
    /\ \A i \in 1..Len(hist) : \A j \in (i + 1)..Len(hist) :
          (hist[i].op = "Fold" /\ hist[j].op = "Pop" /\ hist[j].res.key = hist[i].key)
          => \E m \in (i + 1)..(j - 1) : hist[m].op = "Hit" /\ hist[m].key = hist[i].key

C9_Witness ==
    /\ Len(hist) = 3
    /\ hist[1].op = "Pop" /\ hist[1].res # NoItem
    /\ hist[2].op = "Fold" /\ hist[2].key = hist[1].res.key
    /\ hist[3].op = "Pop" /\ hist[3].res # NoItem

\* C10 (as claimed): in scenario E1 the three Pops after the join return the
\* keys u1, u2, u3 in that order, for every interleaving of the producers.
C10_PopsReturnU1U2U3 ==
    (PopsOnly /\ Len(hist) = 3) =>
        /\ hist[1].res.key = <<"u", 1>>
        /\ hist[2].res.key = <<"u", 2>>
        /\ hist[3].res.key = <<"u", 3>>

\* The call of op on sdHash h returns in this step.
Returned(op, h) == lres' # lres /\ lres'.op = op /\ lres'.hash = h

\* C11: Furlough and Retire stop at the first failure: when the delete of the
\* bytes fails, the call returns that error in the same step, does not go on to
\* the record, and leaves the records as they were.
C11_ShortCircuit ==
    [][\A h \in Hashes :
        /\ (/\ fpc[h] = "idle" /\ "local" \in fault
            /\ (fpc'[h] # "idle" \/ Returned("Furlough", h)))
           => (/\ Returned("Furlough", h) /\ lres'.err = "storage"
               /\ fpc'[h] = "idle" /\ records' = records)
        /\ (/\ tpc[h] = "idle" /\ "remote" \in fault
            /\ (tpc'[h] # "idle" \/ Returned("Retire", h)))
           => (/\ Returned("Retire", h) /\ lres'.err = "storage"
               /\ tpc'[h] = "idle" /\ records' = records)]_vars

C11_Witness ==
    \E h \in Hashes :
        /\ lres.op = "Furlough" /\ lres.hash = h /\ lres.err = "storage"
        /\ fpc[h] = "idle"
        /\ h \in DOMAIN records /\ records[h].localPath = "local"
        /\ h \in localBytes

\* C12: a Retire that returns nil leaves no record under the sdHash; the record
\* is removed only by a Retire whose delete of the remote bytes has succeeded
\* before; a Get of the sdHash answers not-found exactly while there is no
\* record, and a record appears again only through a successful Add.
C12_RetireRemoves ==
    [][\A h \in Hashes :
        /\ (Returned("Retire", h) /\ lres'.err = "none")
           => (h \notin DOMAIN records' /\ tpc[h] = "delete")
        /\ (h \in DOMAIN records /\ h \notin DOMAIN records')
           => (tpc[h] = "delete" /\ Returned("Retire", h) /\ lres'.err = "none")
        /\ (tpc[h] = "idle" /\ tpc'[h] = "delete") => h \notin remoteBytes'
        /\ (Returned("Get", h) /\ lres'.err # "db")
           => (lres'.err = "notfound" <=> h \notin DOMAIN records)
        /\ (h \notin DOMAIN records /\ h \in DOMAIN records')
           => (Returned("Add", h) /\ lres'.err = "none")]_vars

C12_Witness ==
    \E h \in Hashes :
        /\ lres.op = "Retire" /\ lres.hash = h /\ lres.err = "none"
        /\ h \notin DOMAIN records
        /\ h \notin remoteBytes

\* C13 (as claimed): whatever calls of Add, Furlough, Retire and
\* UpdateRemotePath have succeeded or failed, every record has a local path or
\* a remote url.
C13_RecordHasALocation ==
    \A h \in DOMAIN records :
        records[h].localPath # "" \/ records[h].remoteURL # ""

\* C15 (as claimed): while no Furlough is running, every record with a local
\* path has its bytes on the local tier, also after a Furlough whose update of
\* the record failed.
C15_LocalPathHasBytes ==
    (\A g \in Hashes : fpc[g] = "idle")
    => \A h \in DOMAIN records : records[h].localPath # "" => h \in localBytes

\* C14: fragmentURL returns "<server>/streams/<sdHash>/<name>" and no error
\* only when the sd hash it is given is the one in the url the stream resolves
\* to; for every other call (an sd hash that differs or is no sd hash at all, a
\* stream that does not resolve) it returns the empty url and an error saying
\* "remote sd hash mismatch".
C14_FragmentURLChecksHash ==
    fid # "" =>
        IF fid = "vanquish" /\ fhash = VanquishHash
           THEN fres.err = "" /\ fres.url = <<Server, "streams", fhash, fname>>
           ELSE fres.err = "remote sd hash mismatch" /\ fres.url = <<>>

C14_Witness ==
    /\ fid = "vanquish"
    /\ fres.err = ""
    /\ fres.url = <<Server, "streams", VanquishHash, "master.m3u8">>

\* The call after the join that this step makes is op on key k.
Calls(op, k) ==
    /\ Len(hist') = Len(hist) + 1
    /\ hist'[Len(hist')].op = op
    /\ hist'[Len(hist')].key = k

C17_EntryKeepsValueAndHits ==
    [][/\ \A k \in Keys :
            /\ (k \in DOMAIN index /\ k \in DOMAIN index')
               => (/\ index'[k].hits >= index[k].hits
                   /\ index'[k].value = index[k].value
                   /\ index'[k].seq = index[k].seq)
            /\ (k \notin DOMAIN index /\ k \in DOMAIN index')
               => (/\ index'[k].hits = 1
                   /\ index'[k].value = IF Calls("Hit", k) THEN LateValue ELSE ClaimOf(k))
       /\ \A j, k \in DOMAIN index' : j # k => index'[j].seq # index'[k].seq
       /\ Cardinality(DOMAIN index') < qseq']_vars

C17_Witness ==
    \E k \in PinnedKeys :
        /\ hist = <<Call("Hit", k, NoItem)>>
        /\ index[k].value = ClaimOf(k)
        /\ index[k].hits = ExpectedHits(k) + 1

\* C18: once the routing loop has received the stop signal it takes no task
\* out of the intake and spawns no handoff any more; it stops the workers one
\* at a time in the order of d.workers, going to the next only when the one
\* before has left; the tasks in the intake then, and those dispatched later,
\* stay there and are never executed.
C18_StopEndsRouting ==
    /\ [][/\ (rpc = "loop" /\ rpc' # "loop") => (ridx' = 1 /\ rpc' = "stopSend")
          /\ rpc # "loop" =>
                /\ rpc' # "loop"
                /\ Len(tasks') >= Len(tasks)
                /\ SubSeq(tasks', 1, Len(tasks)) = tasks
                /\ \A t \in TaskIds : hpc[t] = "none" => hpc'[t] = "none"
                /\ ridx' \in {ridx, ridx + 1}
                /\ ridx' = ridx + 1 => wpc[ridx] = "exited"
                /\ \A w \in Workers :
                      (wpc'[w] = "stopAck" /\ wpc[w] # "stopAck")
                      => (w = ridx /\ \A v \in 1..(w - 1) : wpc[v] = "exited")]_vars
    /\ [](rpc # "loop" =>
             \A i \in 1..Len(tasks) :
                /\ Count(tasks[i], seenTasks) = 0
                /\ hpc[tasks[i]] = "none"
                /\ \A w \in Workers : wtask[w] # tasks[i])

C18_Witness ==
    /\ nworkers = MaxWorkers
    /\ rpc = "returned"
    /\ \A w \in Workers : wpc[w] = "exited"
    /\ Len(tasks) = TasksCap
    /\ cpc = "blocked"

\* C19: when Do returns an error the worker drops the task: nothing is put
\* back into the intake and no handoff is made for it, no task is executed
\* twice, and the worker goes back to the top of its loop, publishes its
\* channel again and waits for the next task.
C19_ErrorDropsTask ==
    /\ [][\A w \in Workers :
            (wpc[w] = "do" /\ DoFails(wtask[w]) /\ wpc'[w] # "do")
            => (/\ wpc'[w] = "publish"
                /\ wtask'[w] = 0
                /\ seenTasks' = Append(seenTasks, wtask[w])
                /\ tasks' = tasks
                /\ hpc' = hpc
                /\ workerPool' = workerPool)]_vars
    /\ [](\A t \in TaskIds : Count(t, seenTasks) <= 1)
    /\ \A w \in 1..MaxWorkers :
          (w <= nworkers /\ wpc[w] = "do" /\ DoFails(wtask[w])) ~> (wpc[w] = "select")

C19_Witness ==
    /\ nworkers = 1
    /\ Len(seenTasks) = MaxTasks
    /\ \E i \in 1..(Len(seenTasks) - 1) : DoFails(seenTasks[i])

\* C20 (as claimed): with Stop, every handoff goroutine spawned before the
\* stop signal ends: when the routing goroutine and all workers have returned,
\* and so nothing can receive any more, no handoff goroutine is still waiting
\* for a worker channel or parked on its send.
C20_HandoffsEndAfterStop ==
    (rpc = "returned" /\ \A w \in Workers : wpc[w] = "exited")
    => \A t \in TaskIds : hpc[t] \notin {"waitPool", "send"}

\* The routing goroutine has stopped every worker and all of them have returned.
ShutdownDone == rpc = "returned" /\ \A w \in Workers : wpc[w] = "exited"

\* C21 (as claimed): once the stop signal has been received the shutdown can
\* always go on until it is complete, also when Do dispatches follow-ups: no
\* state is reached in which the shutdown is incomplete and no goroutine can
\* take a step.
C21_ShutdownCompletes ==
    spc = "returned" => (ShutdownDone \/ ENABLED ChainNext)

\* The handoff goroutines that hold worker w's channel and are parked on it.
Holding(w) == {t \in AllTaskIds : hpc[t] = "send" /\ hw[t] = w}

\* C22: a worker's channel is in the registry at most once, and is in the
\* registry or in a handoff's hands only while that worker executes no task;
\* so the registry holds at most N entries and no task is handed to a worker
\* that is executing another.
C22_RegistryHoldsIdleWorkers ==
    /\ [](/\ \A w \in Workers :
               /\ Count(w, workerPool) + Cardinality(Holding(w)) <= 1
               /\ (Count(w, workerPool) + Cardinality(Holding(w)) = 1)
                  => (wpc[w] \in {"select", "stopAck", "exited"} /\ wtask[w] = 0)
          /\ Len(workerPool) <= nworkers
          /\ \A i \in 1..Len(workerPool) : workerPool[i] \in Workers)
    /\ [][\A w \in Workers :
            (wtask'[w] # wtask[w] /\ wtask'[w] # 0)
            => (wtask[w] = 0 /\ wpc[w] = "select" /\ wtask'[w] \in Holding(w))]_vars

C22_Witness ==
    /\ nworkers = MaxWorkers
    /\ Len(workerPool) = nworkers
    /\ doCalled >= 1
    /\ \E t \in TaskIds : hpc[t] = "waitPool"

====
